---- MODULE Spec2Model ----
(***************************************************************************)
(* soc/posix/inf_clock/soc.h: the native task (lifecycle hook) table and   *)
(* the nRF pin-select (PSEL) encoders.                                     *)
(*                                                                         *)
(* NATIVE_TASK places a pointer to fn in the section                       *)
(*     ".native_" #level STRINGIFY(prio) "_task"                           *)
(* so a record carries its phase and priority only in its section name.    *)
(* The link step and run_native_tasks() are declared, not defined, by the  *)
(* header: they are modelled from the specification (ordered enumeration   *)
(* of the records of a phase, ascending priority, stable).                 *)
(***************************************************************************)
EXTENDS Integers, Sequences, FiniteSets

VARIABLES
    decls,   \* every use of NATIVE_TASK in the sources, in link order
    table,   \* the records the uses define: [tu, fn, level, prio, section]
    build,   \* "ok", or "error" once a translation unit fails to compile
    stage,   \* "build" while sources are compiled, "run" once linked
    image,   \* per level number, the ordered records of that phase
    calls,   \* the levels run_native_tasks was called with, in order
    log,     \* per call, the records invoked (indices of table), in order
    dt,      \* devicetree: the gpios property of the node, or NoProp
    psel     \* the last pin-select expression evaluated and its value

vars == <<decls, table, build, stage, image, calls, log, dt, psel>>

hookVars == <<decls, table, build, stage, image, calls, log>>

---------------------------------------------------------------------------
(* Bounds *)

MaxTasks == 3

MaxCalls == 2

MaxPin == 33

MaxPort == 2

---------------------------------------------------------------------------
(* Phases: soc.h lines 51-55 *)

NATIVE_PRE_BOOT_1_LEVEL == 0

NATIVE_PRE_BOOT_2_LEVEL == 1

NATIVE_PRE_BOOT_3_LEVEL == 2

NATIVE_FIRST_SLEEP_LEVEL == 3

NATIVE_ON_EXIT_LEVEL == 4

LevelNames == {"PRE_BOOT_1", "PRE_BOOT_2", "PRE_BOOT_3", "FIRST_SLEEP", "ON_EXIT"}

\* the level number _NATIVE_<name>_LEVEL of a level name
LevelNumber(name) ==
    CASE name = "PRE_BOOT_1"  -> NATIVE_PRE_BOOT_1_LEVEL
      [] name = "PRE_BOOT_2"  -> NATIVE_PRE_BOOT_2_LEVEL
      [] name = "PRE_BOOT_3"  -> NATIVE_PRE_BOOT_3_LEVEL
      [] name = "FIRST_SLEEP" -> NATIVE_FIRST_SLEEP_LEVEL
      [] name = "ON_EXIT"     -> NATIVE_ON_EXIT_LEVEL

Levels == {LevelNumber(n) : n \in LevelNames}

---------------------------------------------------------------------------
(* Section naming: soc.h lines 45-48 *)

DigitChar(d) == <<"0", "1", "2", "3", "4", "5", "6", "7", "8", "9">>[d + 1]

\* mutant: FIRST_SLEEP is spelled as ON_EXIT
LevelChars_exit(name) ==
    CASE name = "PRE_BOOT_1"  -> <<"P","R","E","_","B","O","O","T","_","1">>
      [] name = "PRE_BOOT_2"  -> <<"P","R","E","_","B","O","O","T","_","2">>
      [] name = "PRE_BOOT_3"  -> <<"P","R","E","_","B","O","O","T","_","3">>
      [] name = "FIRST_SLEEP" -> <<"O","N","_","E","X","I","T">>
      [] name = "ON_EXIT"     -> <<"O","N","_","E","X","I","T">>

\* #level: the characters of the level token
LevelChars(name) ==
    CASE name = "PRE_BOOT_1"  -> <<"P","R","E","_","B","O","O","T","_","1">>
      [] name = "PRE_BOOT_2"  -> <<"P","R","E","_","B","O","O","T","_","2">>
      [] name = "PRE_BOOT_3"  -> <<"P","R","E","_","B","O","O","T","_","3">>
      [] name = "FIRST_SLEEP" -> <<"F","I","R","S","T","_","S","L","E","E","P">>
      [] name = "ON_EXIT"     -> <<"O","N","_","E","X","I","T">>

RECURSIVE STRINGIFY_rev(_)
\* mutant: the decimal digits least significant first
STRINGIFY_rev(prio) ==
    IF prio < 10 THEN <<DigitChar(prio)>>
    ELSE <<DigitChar(prio % 10)>> \o STRINGIFY_rev(prio \div 10)

\* mutant: only the last decimal digit is spelled
STRINGIFY_lastdigit(prio) == <<DigitChar(prio % 10)>>

RECURSIVE STRINGIFY(_)
\* STRINGIFY(prio): the decimal spelling of the priority, no padding
STRINGIFY(prio) ==
    IF prio < 10 THEN <<DigitChar(prio)>>
    ELSE STRINGIFY(prio \div 10) \o <<DigitChar(prio % 10)>>

SectionPrefix == <<".","n","a","t","i","v","e","_">>

SectionSuffix == <<"_","t","a","s","k">>

\* mutant: the level token is left out of the section name
SectionName_nolevel(level, prio) ==
    SectionPrefix \o STRINGIFY(prio) \o SectionSuffix

\* mutant: the priority is left out of the section name
SectionName_noprio(level, prio) ==
    SectionPrefix \o LevelChars(level) \o SectionSuffix

\* ".native_" #level STRINGIFY(prio) "_task"
SectionName(level, prio) ==
    SectionPrefix \o LevelChars(level) \o STRINGIFY(prio) \o SectionSuffix

\* static void (*__native_task_<fn>) ... = fn : the record of one registration
TaskRecord(tu, fn, level, prio) ==
    [tu |-> tu, fn |-> fn, level |-> level, prio |-> prio,
     section |-> SectionName(level, prio)]

\* the identifier __native_task_<fn> is already defined in translation unit tu
Redefinition(tu, fn) ==
    \E i \in DOMAIN table : table[i].tu = tu /\ table[i].fn = fn

---------------------------------------------------------------------------
(* Link step: ordered enumeration of the records of each phase *)

IsDigit(c) == \E d \in 0..9 : DigitChar(d) = c

DigitValue(c) == CHOOSE d \in 0..9 : DigitChar(d) = c

RECURSIVE NumberOf(_)
NumberOf(ds) ==
    IF Len(ds) = 0 THEN 0
    ELSE 10 * NumberOf(SubSeq(ds, 1, Len(ds) - 1)) + DigitValue(ds[Len(ds)])

\* the characters of a section name between ".native_<level>" and "_task"
SectionDigits(section, name) ==
    SubSeq(section, Len(SectionPrefix) + Len(LevelChars(name)) + 1,
           Len(section) - Len(SectionSuffix))

\* the section belongs to the group of the phase: .native_<level><digits>_task
InPhase(section, name) ==
    LET head == SectionPrefix \o LevelChars(name)
    IN  /\ Len(section) > Len(head) + Len(SectionSuffix)
        /\ SubSeq(section, 1, Len(head)) = head
        /\ SubSeq(section, Len(section) - Len(SectionSuffix) + 1, Len(section))
             = SectionSuffix
        /\ \A k \in DOMAIN SectionDigits(section, name) :
             IsDigit(SectionDigits(section, name)[k])

SectionPrio(section, name) == NumberOf(SectionDigits(section, name))

\* the records of a phase, ascending priority, link order among equals
PhaseTasks(tbl, name) ==
    LET S == {i \in DOMAIN tbl : InPhase(tbl[i].section, name)}
        P(i) == SectionPrio(tbl[i].section, name)
        Before(i, j) == P(i) < P(j) \/ (P(i) = P(j) /\ i < j)
    IN  [k \in 1..Cardinality(S) |->
            CHOOSE i \in S : Cardinality({j \in S : Before(j, i)}) = k - 1]

LinkImage(tbl) ==
    [n \in Levels |->
        PhaseTasks(tbl, CHOOSE name \in LevelNames : LevelNumber(name) = n)]

NoImage == [n \in Levels |-> <<>>]

---------------------------------------------------------------------------
(* Devicetree and PSEL encoders: soc.h lines 99-122 *)

RECURSIVE BitAnd(_, _)
\* a & b
BitAnd(a, b) ==
    IF a = 0 \/ b = 0 THEN 0
    ELSE (a % 2) * (b % 2) + 2 * BitAnd(a \div 2, b \div 2)

RECURSIVE BitOr(_, _)
\* a | b
BitOr(a, b) ==
    IF a = 0 THEN b
    ELSE IF b = 0 THEN a
    ELSE (IF a % 2 = 1 \/ b % 2 = 1 THEN 1 ELSE 0) + 2 * BitOr(a \div 2, b \div 2)

\* a << n
ShiftLeft(a, n) == a * 2^n

\* the node's gpios property is absent
NoProp == [has |-> FALSE, entries |-> <<>>]

\* DT_NODE_HAS_PROP(node_id, prop): 1 or 0
DT_NODE_HAS_PROP(node) == IF node.has THEN 1 ELSE 0

\* DT_PROP_BY_PHANDLE_IDX(node_id, prop, idx, port): "port" of the controller
DT_PROP_BY_PHANDLE_IDX(node, idx) == node.entries[idx + 1].port

\* DT_GPIO_PIN_BY_IDX(node_id, prop, idx): the pin cell of the entry
DT_GPIO_PIN_BY_IDX(node, idx) == node.entries[idx + 1].pin

\* COND_CODE_1(flag, (if_1_code), (else_code))
COND_CODE_1(flag, if1, else) == IF flag = 1 THEN if1 ELSE else

\* mutant: the pin is not masked
NRF_DT_GPIOS_TO_PSEL_BY_IDX_nomask(node, idx) ==
    BitOr(ShiftLeft(DT_PROP_BY_PHANDLE_IDX(node, idx), 5),
          DT_GPIO_PIN_BY_IDX(node, idx))

\* mutant: the port is shifted by 4
NRF_DT_GPIOS_TO_PSEL_BY_IDX_shift4(node, idx) ==
    BitOr(ShiftLeft(DT_PROP_BY_PHANDLE_IDX(node, idx), 4),
          BitAnd(DT_GPIO_PIN_BY_IDX(node, idx), 31))

\* ((port << 5) | (pin & 0x1F))
NRF_DT_GPIOS_TO_PSEL_BY_IDX(node, idx) ==
    BitOr(ShiftLeft(DT_PROP_BY_PHANDLE_IDX(node, idx), 5),
          BitAnd(DT_GPIO_PIN_BY_IDX(node, idx), 31))

\* NRF_DT_GPIOS_TO_PSEL_BY_IDX(node_id, prop, 0)
NRF_DT_GPIOS_TO_PSEL(node) == NRF_DT_GPIOS_TO_PSEL_BY_IDX(node, 0)

\* mutant: the branches are exchanged
NRF_DT_GPIOS_TO_PSEL_OR_swapped(node, default_value) ==
    IF DT_NODE_HAS_PROP(node) = 1 THEN default_value
    ELSE 0

\* COND_CODE_1(DT_NODE_HAS_PROP(..), (NRF_DT_GPIOS_TO_PSEL(..)), (default_value))
NRF_DT_GPIOS_TO_PSEL_OR(node, default_value) ==
    COND_CODE_1(DT_NODE_HAS_PROP(node), NRF_DT_GPIOS_TO_PSEL(node), default_value)

NoPsel == [macro |-> "none", idx |-> 0, default |-> 0, value |-> 0]

---------------------------------------------------------------------------
(* Hook table: actions *)

\* the functions each translation unit defines and may register
Symbols == {<<1, "f">>, <<1, "g">>, <<2, "f">>}

Prios == {2, 10}

InitHooks ==
    /\ decls = <<>>
    /\ table = <<>>
    /\ build = "ok"
    /\ stage = "build"
    /\ image = NoImage
    /\ calls = <<>>
    /\ log = <<>>

Init ==
    /\ InitHooks
    /\ dt = NoProp
    /\ psel = NoPsel

\* mutant: the registration calls fn
NATIVE_TASK_invokes(tu, fn, level, prio) ==
    /\ stage = "build"
    /\ build = "ok"
    /\ Len(decls) < MaxTasks
    /\ \A i \in DOMAIN decls : decls[i].tu <= tu
    /\ ~Redefinition(tu, fn)
    /\ decls' = Append(decls, [tu |-> tu, fn |-> fn, level |-> level, prio |-> prio])
    /\ table' = Append(table, TaskRecord(tu, fn, level, prio))
    /\ log' = Append(log, <<Len(table) + 1>>)
    /\ UNCHANGED <<build, stage, image, calls, dt, psel>>

\* NATIVE_TASK(fn, level, prio) in translation unit tu
NATIVE_TASK(tu, fn, level, prio) ==
    /\ stage = "build"
    /\ build = "ok"
    /\ Len(decls) < MaxTasks
    /\ \A i \in DOMAIN decls : decls[i].tu <= tu
    /\ decls' = Append(decls, [tu |-> tu, fn |-> fn, level |-> level, prio |-> prio])
    /\ IF Redefinition(tu, fn)
       THEN /\ build' = "error"
            /\ table' = table
       ELSE /\ build' = build
            /\ table' = Append(table, TaskRecord(tu, fn, level, prio))
    /\ UNCHANGED <<stage, image, calls, log, dt, psel>>

\* the program is linked and loaded: the table is frozen
Link ==
    /\ stage = "build"
    /\ build = "ok"
    /\ stage' = "run"
    /\ image' = LinkImage(table)
    /\ UNCHANGED <<decls, table, build, calls, log, dt, psel>>

\* void run_native_tasks(int level)
run_native_tasks(level) ==
    /\ stage = "run"
    /\ calls' = Append(calls, level)
    /\ log' = Append(log, image[level])
    /\ UNCHANGED <<decls, table, build, stage, image, dt, psel>>

\* any caller, any level
CallDriver(level) ==
    /\ Len(calls) < MaxCalls
    /\ run_native_tasks(level)

Next ==
    \/ \E sym \in Symbols, level \in LevelNames, prio \in Prios :
          NATIVE_TASK(sym[1], sym[2], level, prio)
    \/ Link
    \/ \E level \in Levels : CallDriver(level)

Spec == Init /\ [][Next]_vars

---------------------------------------------------------------------------
(* Boot: the entry code calls the driver once per phase, in order *)

BootSequence ==
    <<NATIVE_PRE_BOOT_1_LEVEL, NATIVE_PRE_BOOT_2_LEVEL, NATIVE_PRE_BOOT_3_LEVEL,
      NATIVE_FIRST_SLEEP_LEVEL, NATIVE_ON_EXIT_LEVEL>>

\* the registrations one translation unit makes for its phase
PerPhase ==
    { <<>>,
      <<[fn |-> "f", prio |-> 2]>>,
      <<[fn |-> "f", prio |-> 10], [fn |-> "g", prio |-> 2]>>,
      <<[fn |-> "f", prio |-> 2], [fn |-> "g", prio |-> 2]>> }

\* link orders of the five translation units (one per phase)
LinkOrders ==
    { <<"PRE_BOOT_1", "PRE_BOOT_2", "PRE_BOOT_3", "FIRST_SLEEP", "ON_EXIT">>,
      <<"ON_EXIT", "FIRST_SLEEP", "PRE_BOOT_3", "PRE_BOOT_2", "PRE_BOOT_1">> }

RECURSIVE BootTable(_, _, _)
\* the records of translation units k..5, unit k registering for order[k]
BootTable(choice, order, k) ==
    IF k > Len(order) THEN <<>>
    ELSE [i \in DOMAIN choice[order[k]] |->
             TaskRecord(k, choice[order[k]][i].fn, order[k],
                        choice[order[k]][i].prio)]
         \o BootTable(choice, order, k + 1)

InitBoot ==
    /\ \E choice \in [LevelNames -> PerPhase], order \in LinkOrders :
          table = BootTable(choice, order, 1)
    /\ decls = [i \in DOMAIN table |->
                  [tu |-> table[i].tu, fn |-> table[i].fn,
                   level |-> table[i].level, prio |-> table[i].prio]]
    /\ build = "ok"
    /\ stage = "build"
    /\ image = NoImage
    /\ calls = <<>>
    /\ log = <<>>
    /\ dt = NoProp
    /\ psel = NoPsel

\* the entry code reaches its next phase
BootStep ==
    /\ Len(calls) < Len(BootSequence)
    /\ run_native_tasks(BootSequence[Len(calls) + 1])

NextBoot ==
    \/ Link
    \/ BootStep

SpecBoot == InitBoot /\ [][NextBoot]_vars

---------------------------------------------------------------------------
(* PSEL encoders applied to a devicetree node *)

Entries == [port : 0..MaxPort, pin : 0..MaxPin]

Defaults == {0, 37, 2147483647}

InitPsel ==
    /\ InitHooks
    /\ \/ dt = NoProp
       \/ \E e \in Entries : dt = [has |-> TRUE, entries |-> <<e>>]
       \/ \E e1 \in Entries, e2 \in Entries :
             dt = [has |-> TRUE, entries |-> <<e1, e2>>]
    /\ psel = NoPsel

EvalByIdx(idx) ==
    /\ dt.has
    /\ idx < Len(dt.entries)
    /\ psel' = [macro |-> "BY_IDX", idx |-> idx, default |-> 0,
                value |-> NRF_DT_GPIOS_TO_PSEL_BY_IDX(dt, idx)]
    /\ UNCHANGED <<hookVars, dt>>

EvalPsel ==
    /\ dt.has
    /\ psel' = [macro |-> "PSEL", idx |-> 0, default |-> 0,
                value |-> NRF_DT_GPIOS_TO_PSEL(dt)]
    /\ UNCHANGED <<hookVars, dt>>

EvalPselOr(d) ==
    /\ psel' = [macro |-> "PSEL_OR", idx |-> 0, default |-> d,
                value |-> NRF_DT_GPIOS_TO_PSEL_OR(dt, d)]
    /\ UNCHANGED <<hookVars, dt>>

NextPsel ==
    \/ \E idx \in 0..1 : EvalByIdx(idx)
    \/ EvalPsel
    \/ \E d \in Defaults : EvalPselOr(d)

SpecPsel == InitPsel /\ [][NextPsel]_vars

---------------------------------------------------------------------------
(* Properties *)

Count(seq, x) == Cardinality({k \in DOMAIN seq : seq[k] = x})

RECURSIVE Flat(_)
\* the invocations of all calls, in order
Flat(l) == IF Len(l) = 0 THEN <<>> ELSE Flat(SubSeq(l, 1, Len(l) - 1)) \o l[Len(l)]

\* record i was registered for the phase with level number n
RegisteredFor(i, n) == LevelNumber(table[i].level) = n

\* C1: in a call run_native_tasks(p), of two hooks registered for p the one
\* with the numerically lower priority is invoked before the other (also
\* when the priorities have different numbers of digits, 2 and 10).
C1_PriorityOrder ==
    \A c \in DOMAIN log : \A i \in DOMAIN table, j \in DOMAIN table :
        (RegisteredFor(i, calls[c]) /\ RegisteredFor(j, calls[c])
           /\ table[i].prio < table[j].prio)
        => \E a \in DOMAIN log[c], b \in DOMAIN log[c] :
              a < b /\ log[c][a] = i /\ log[c][b] = j

C1_Witness ==
    \E c \in DOMAIN log : \E i \in DOMAIN table, j \in DOMAIN table :
        /\ RegisteredFor(i, calls[c]) /\ RegisteredFor(j, calls[c])
        /\ table[i].prio = 2 /\ table[j].prio = 10 /\ j < i
        /\ log[c] = <<i, j>>

\* C2: one call run_native_tasks(p) invokes every record registered for p
\* exactly once and no record registered for another phase.
C2_ExactlyThePhase ==
    \A c \in DOMAIN log :
        /\ \A a \in DOMAIN log[c] : log[c][a] \in DOMAIN table
        /\ \A i \in DOMAIN table :
              Count(log[c], i) = IF RegisteredFor(i, calls[c]) THEN 1 ELSE 0

C2_Witness ==
    \E c \in DOMAIN log : \E i \in DOMAIN table, j \in DOMAIN table :
        /\ RegisteredFor(i, calls[c]) /\ ~RegisteredFor(j, calls[c])
        /\ log[c] = <<i>>

OneHookPerPhase ==
    /\ Len(table) = Cardinality(LevelNames)
    /\ \A name \in LevelNames : \E i \in DOMAIN table : table[i].level = name

HookOf(name) == CHOOSE i \in DOMAIN table : table[i].level = name

\* C3: with one hook per phase and the driver called with levels 0, 1, 2, 3,
\* 4 in that order, exactly five invocations occur, in the order PRE_BOOT_1,
\* PRE_BOOT_2, PRE_BOOT_3, FIRST_SLEEP, ON_EXIT hook.
C3_EndToEnd ==
    (OneHookPerPhase /\ calls = <<0, 1, 2, 3, 4>>)
    => Flat(log) = <<HookOf("PRE_BOOT_1"), HookOf("PRE_BOOT_2"), HookOf("PRE_BOOT_3"),
                     HookOf("FIRST_SLEEP"), HookOf("ON_EXIT")>>

C3_Witness ==
    /\ OneHookPerPhase
    /\ calls = <<0, 1, 2, 3, 4>>
    /\ Len(Flat(log)) = 5
    /\ table[1].level = "ON_EXIT"

\* C6: over a boot (the driver called once per phase, in order) no record is
\* invoked twice, after the last phase every record has been invoked exactly
\* once, and hooks of an earlier phase are invoked before hooks of a later one.
C6_OncePerRegistration ==
    LET run == Flat(log)
    IN  /\ \A i \in DOMAIN table : Count(run, i) <= 1
        /\ calls = BootSequence => \A i \in DOMAIN table : Count(run, i) = 1
        /\ \A a \in DOMAIN run, b \in DOMAIN run :
              a < b => LevelNumber(table[run[a]].level) <= LevelNumber(table[run[b]].level)

C6_Witness ==
    /\ calls = BootSequence
    /\ Len(table) >= 3
    /\ table[1].level = "ON_EXIT"
    /\ \E i \in DOMAIN table : table[i].level = "FIRST_SLEEP" /\ table[i].prio = 10
    /\ Len(Flat(log)) = Len(table)

\* C7: a function registered k times has k records in the hook table, and
\* run_native_tasks(p) invokes it once for each of its registrations for p.
C7_DistinctRecords ==
    \A sym \in Symbols :
        /\ Cardinality({i \in DOMAIN table : table[i].fn = sym[2]})
             = Cardinality({k \in DOMAIN decls : decls[k].fn = sym[2]})
        /\ \A c \in DOMAIN log :
             Cardinality({a \in DOMAIN log[c] : table[log[c][a]].fn = sym[2]})
               = Cardinality({k \in DOMAIN decls :
                               decls[k].fn = sym[2] /\ LevelNumber(decls[k].level) = calls[c]})

\* C8: within one call the invocations are in ascending priority, and hooks
\* of equal priority are invoked in their registration order.
C8_StableOrder ==
    \A c \in DOMAIN log :
        /\ \A i \in DOMAIN table : RegisteredFor(i, calls[c]) => Count(log[c], i) = 1
        /\ \A a \in DOMAIN log[c], b \in DOMAIN log[c] :
              a < b => /\ table[log[c][a]].prio <= table[log[c][b]].prio
                       /\ table[log[c][a]].prio = table[log[c][b]].prio
                            => log[c][a] < log[c][b]

C8_Witness ==
    \E c \in DOMAIN log :
        /\ Len(log[c]) = 3
        /\ table[1].prio = 10 /\ table[2].prio = 2 /\ table[3].prio = 10
        /\ log[c] = <<2, 1, 3>>

\* C9: a registration invokes no hook, hooks run only inside the driver, a
\* call of the driver leaves the records unchanged, and calls with the same
\* level invoke the same hooks in the same order.
C9_Frame ==
    [][ /\ decls' # decls => (log' = log /\ calls' = calls)
        /\ log' # log => calls' # calls
        /\ calls' # calls => (table' = table /\ decls' = decls /\ image' = image)
        /\ \A c1 \in DOMAIN log', c2 \in DOMAIN log' :
              calls'[c1] = calls'[c2] => log'[c1] = log'[c2] ]_vars

C9_Witness ==
    /\ Len(calls) = 2
    /\ calls[1] = calls[2]
    /\ Len(log[1]) = 2
    /\ log[1] = log[2]

\* the entry the last BY_IDX evaluation read
PselEntry == dt.entries[psel.idx + 1]

\* C4: for port in {0,1} and pin in 0..31 NRF_DT_GPIOS_TO_PSEL_BY_IDX yields
\* 32*port + pin.
C4_Encode ==
    (psel.macro = "BY_IDX" /\ PselEntry.port \in {0, 1} /\ PselEntry.pin \in 0..31)
    => /\ psel.value = 32 * PselEntry.port + PselEntry.pin
       /\ (PselEntry.port = 0 /\ PselEntry.pin = 4) => psel.value = 4
       /\ (PselEntry.port = 1 /\ PselEntry.pin = 5) => psel.value = 37

C4_Witness ==
    /\ psel.macro = "BY_IDX"
    /\ psel.idx = 1
    /\ PselEntry = [port |-> 1, pin |-> 5]
    /\ psel.value = 37

\* C5: NRF_DT_GPIOS_TO_PSEL_OR yields the encoding of entry 0 when the node
\* has the property and exactly the default otherwise.
C5_GuardedEncode ==
    psel.macro = "PSEL_OR"
    => IF dt.has
       THEN /\ psel.value = 32 * dt.entries[1].port + (dt.entries[1].pin % 32)
            /\ psel.value = NRF_DT_GPIOS_TO_PSEL_BY_IDX(dt, 0)
       ELSE psel.value = psel.default

C5_Witness ==
    /\ psel.macro = "PSEL_OR"
    /\ dt.has
    /\ Len(dt.entries) = 2
    /\ dt.entries[1] = [port |-> 0, pin |-> 4]
    /\ dt.entries[2] = [port |-> 1, pin |-> 5]
    /\ psel.default = 37
    /\ psel.value = 4

\* C10: the encoder yields 32*port + (pin mod 32) for every non-negative pin
\* (the port is shifted unmasked); for port in {0,1} the value is in 0..63,
\* bit 5 is the port and bits 0-4 are the pin.
C10_Packed ==
    psel.macro = "BY_IDX"
    => /\ psel.value = 32 * PselEntry.port + (PselEntry.pin % 32)
       /\ PselEntry.port \in {0, 1}
            => /\ psel.value \in 0..63
               /\ (psel.value \div 32) % 2 = PselEntry.port
               /\ psel.value % 32 = PselEntry.pin % 32

C10_Witness ==
    /\ psel.macro = "BY_IDX"
    /\ PselEntry = [port |-> 0, pin |-> 33]
    /\ psel.value = 1

====
